---- MODULE Spec2Model ----
(***************************************************************************)
(* A model of ddbtools (src/ddbtools.py): the transaction-scoped           *)
(* Connection, its three slice iterators (iter_group, iter_window,         *)
(* iter_chunk), the frame sink push, and the json_wrap codec.              *)
(*                                                                         *)
(* The SQL engine is DuckDB, driven through its Python connection object.  *)
(* The engine operations the source calls are modelled by what DuckDB      *)
(* does for them:                                                          *)
(*   - begin() opens an explicit transaction; outside one, every           *)
(*     statement commits on its own (auto-commit);                         *)
(*   - commit() makes the transaction's writes durable and ends it, and    *)
(*     is a no-op when no transaction is open (test_js_maco_and_udf and    *)
(*     test_udf_interpolate leave a scope normally after regfn);           *)
(*   - rollback() discards the transaction's writes and ends it, and       *)
(*     raises a TransactionException when no transaction is open;          *)
(*   - a comparison with NULL is not true; DISTINCT and ORDER BY treat     *)
(*     NULLs as one value, sorted last;                                    *)
(*   - the catalog resolves table names case-insensitively.                *)
(***************************************************************************)
EXTENDS Integers, Sequences, FiniteSets, TLC

VARIABLES
    disk,        \* the database at db_path: what is committed
    work,        \* the database as self.conn sees it (uncommitted writes included)
    conn,        \* self.conn: "None", "open" or "closed"
    txn,         \* an explicit transaction is open on self.conn
    udfs,        \* functions registered on self.conn by create_function
    views,       \* views registered on self.conn by register
    uuid,        \* number of uuid.uuid4() tokens drawn so far
    pc,          \* the caller: "outside" or "inside" the with block
    exc,         \* the exception propagating out of the with body ("None": none)
    caught,      \* what the with statement raised to the caller ("None": nothing)
    gens,        \* the generator objects created by iter_group/iter_window/iter_chunk
    nops,        \* operations performed in the current scope
    nscopes,     \* scopes entered so far
    commitPoint, \* history: work at the last regfn call of the scope (at entry if none)
    last,        \* history: the operation performed by the last step
    pushlog,     \* history: the slices pushed in the scope, in order
    udf_args,    \* json_wrap: the arguments handed to the wrapper
    udf_seen,    \* json_wrap: what the wrapped function received
    udf_ret      \* json_wrap: what the wrapper returned

vars == <<disk, work, conn, txn, udfs, views, uuid, pc, exc, caught, gens,
          nops, nscopes, commitPoint, last, pushlog, udf_args, udf_seen, udf_ret>>

sessionVars == <<disk, work, conn, txn, udfs, views, uuid, pc, exc, caught,
                 nops, nscopes, commitPoint, pushlog>>

codecVars == <<udf_args, udf_seen, udf_ret>>

(***************************************************************************)
(* Bounds                                                                  *)
(***************************************************************************)
MaxOps == 3
MaxScopes == 2
MaxRows == 3      \* rows of a table iterated by iter_group
MaxKey == 2       \* key column values are 1..MaxKey or NULL
MaxWinRows == 2   \* rows of a table iterated by iter_window
MaxRef == 2       \* reference column values are 0..MaxRef or NULL
MaxWindow == 2    \* window_size is 1..MaxWindow
MaxStep == 2      \* step_size is None or 0..MaxStep
MaxStart == 1     \* start is None or 0..MaxStart
MaxRowid == 4     \* row identifiers of a table iterated by iter_chunk are in 0..MaxRowid
MaxChunk == 3     \* chunk_size is 1..MaxChunk
MaxLen == 2       \* length of a list handed to a json_wrap function

(***************************************************************************)
(* Values                                                                  *)
(***************************************************************************)
\* Python None / SQL NULL (fetchone() hands a NULL back as None)
None == -99

\* Python truthiness of an int-or-None value (`not x`, `x or y`)
Falsy(x) == x = None \/ x = 0

PyOr(x, y) == IF Falsy(x) THEN y ELSE x

\* str.lower() on one character of the names used here
LowerChar(c) ==
    CASE c = "F" -> "f"
      [] c = "O" -> "o"
      [] c = "E" -> "e"
      [] c = "M" -> "m"
      [] c = "P" -> "p"
      [] OTHER -> c

\* str.lower(): a name is its sequence of characters
Lower(s) == [i \in DOMAIN s |-> LowerChar(s[i])]

emp == <<"e", "m", "p">>
foo == <<"f", "o", "o">>
FOO == <<"F", "O", "O">>

(***************************************************************************)
(* The engine: tables, catalog, statements                                 *)
(***************************************************************************)
\* A table row: its rowid pseudo-column and the columns a, b (keys), r (reference)
Row(id, a, b, r) == [rowid |-> id, a |-> a, b |-> b, r |-> r]

\* The column values of a frame's rows (SELECT * does not return rowid; the
\* model keeps it on a slice's rows as the row's identity)
Values(rows) == [i \in DOMAIN rows |-> [a |-> rows[i].a, b |-> rows[i].b, r |-> rows[i].r]]

NextRowid(rows) == IF rows = <<>> THEN 0 ELSE rows[Len(rows)].rowid + 1

\* The rows of a frame as stored from rowid `from` on
Renumber(df, from) == [i \in DOMAIN df |-> [df[i] EXCEPT !.rowid = from + i - 1]]

NoTables == [k \in {} |-> <<>>]

EmptyDb == [tables |-> NoTables, indexes |-> {}, macros |-> {}]

\* SHOW TABLES: the names as they were created
ShowTables(db) == DOMAIN db.tables

\* The catalog's case-insensitive lookup
HasTable(db, name) == \E k \in DOMAIN db.tables : Lower(k) = Lower(name)

TableKey(db, name) == CHOOSE k \in DOMAIN db.tables : Lower(k) = Lower(name)

TableRows(db, name) == db.tables[TableKey(db, name)]

\* CREATE TABLE name AS SELECT * FROM df   (name is absent)
CreateTableAs(db, name, df) ==
    [db EXCEPT !.tables = [k \in DOMAIN db.tables \cup {name} |->
                              IF k = name THEN Renumber(df, 0) ELSE db.tables[k]]]

\* INSERT INTO name SELECT * FROM df   (name is present)
InsertInto(db, name, df) ==
    LET k == TableKey(db, name)
    IN  [db EXCEPT !.tables[k] = @ \o Renumber(df, NextRowid(@))]

\* DROP TABLE IF EXISTS name
DropTableIfExists(db, name) ==
    IF HasTable(db, name)
    THEN LET key == TableKey(db, name)
         IN  [db EXCEPT !.tables = [k \in DOMAIN db.tables \ {key} |-> db.tables[k]]]
    ELSE db

\* CREATE INDEX index_name ON table(...)
CreateIndex(db, index_name) == [db EXCEPT !.indexes = @ \cup {index_name}]

\* Mutant of DropIndex: the statement leaves the index in place
DropIndexKeeps(db, index_name) == db

\* DROP INDEX index_name
DropIndex(db, index_name) == [db EXCEPT !.indexes = @ \ {index_name}]

\* Mutant of TempName: every temporary object gets the same name
TempNameFixed(token) == 0

\* "tempIndex" / "tempDFView" + str(uuid.uuid4()): the name is identified by
\* the token drawn, and no two draws give the same token
TempName(token) == token

\* conn.execute(statement) with result database `after`: inside an explicit
\* transaction the write stays uncommitted, outside one it auto-commits
Execute(after) ==
    /\ work' = after
    /\ disk' = IF txn THEN disk ELSE after

(***************************************************************************)
(* Connection: the transaction scope                                       *)
(***************************************************************************)
\* The with body is running and may perform another operation
InBody == pc = "inside" /\ exc = "None" /\ nops < MaxOps

\* self.conn.commit(): the database on disk afterwards
Commit == IF txn THEN work ELSE disk

\* The databases a Connection is constructed on
SessionDbs ==
    { EmptyDb,
      [EmptyDb EXCEPT !.tables = [k \in {FOO} |-> <<Row(0, 1, 1, 0)>>]] }

\* The frames and names the caller pushes
PushFrames == { <<>>, <<Row(0, 1, 1, 0)>> }

PushNames == { foo, FOO }

UserErrors == { "ValueError" }

Functions == { "remove_top_n", "interpolate" }

\* Connection(db_path)
InitConnection ==
    /\ disk \in SessionDbs
    /\ work = disk
    /\ conn = "None"
    /\ txn = FALSE
    /\ udfs = {}
    /\ views = {}
    /\ uuid = 0
    /\ pc = "outside"
    /\ exc = "None"
    /\ caught = "None"
    /\ nops = 0
    /\ nscopes = 0
    /\ commitPoint = disk
    /\ pushlog = <<>>

\* __enter__: connect, install the js macro (auto-committed), begin
Enter ==
    /\ pc = "outside"
    /\ nscopes < MaxScopes
    /\ conn' = "open"
    /\ LET installed == [disk EXCEPT !.macros = @ \cup {"js"}]
       IN  /\ disk' = installed
           /\ work' = installed
           /\ commitPoint' = installed
    /\ txn' = TRUE
    /\ udfs' = {}
    /\ views' = {}
    /\ pc' = "inside"
    /\ exc' = "None"
    /\ caught' = "None"
    /\ nops' = 0
    /\ nscopes' = nscopes + 1
    /\ pushlog' = <<>>
    /\ last' = [op |-> "enter"]
    /\ UNCHANGED <<uuid, gens>>
    /\ UNCHANGED codecVars

\* __exit__: rollback and re-raise, or commit and close
Exit ==
    /\ pc = "inside"
    /\ IF exc # "None"
       THEN /\ IF txn
               THEN /\ work' = disk
                    /\ txn' = FALSE
                    /\ caught' = exc
               ELSE \* rollback() raises: no transaction is active
                    /\ caught' = "TransactionException"
                    /\ UNCHANGED <<work, txn>>
            /\ UNCHANGED <<disk, conn>>
       ELSE /\ disk' = Commit
            /\ work' = Commit
            /\ txn' = FALSE
            /\ conn' = "closed"
            /\ caught' = "None"
    /\ pc' = "outside"
    /\ last' = [op |-> "exit"]
    /\ UNCHANGED <<udfs, views, uuid, exc, gens, nops, nscopes, commitPoint, pushlog>>
    /\ UNCHANGED codecVars

\* The with body raises an error of its own
Raise(e) ==
    /\ pc = "inside"
    /\ exc = "None"
    /\ exc' = e
    /\ last' = [op |-> "raise"]
    /\ UNCHANGED <<disk, work, conn, txn, udfs, views, uuid, pc, caught, gens,
                   nops, nscopes, commitPoint, pushlog>>
    /\ UNCHANGED codecVars

\* regfn: commit, then create_function (which refuses a name it already holds)
regfn(func) ==
    /\ InBody
    /\ disk' = Commit
    /\ txn' = FALSE
    /\ commitPoint' = work
    /\ IF func \in udfs
       THEN exc' = "NotImplementedException" /\ udfs' = udfs
       ELSE exc' = exc /\ udfs' = udfs \cup {func}
    /\ nops' = nops + 1
    /\ last' = [op |-> "regfn"]
    /\ UNCHANGED <<work, conn, views, uuid, pc, caught, gens, nscopes, pushlog>>
    /\ UNCHANGED codecVars

\* The pass-through (__getattr__): conn.sql("drop table if exists ...")
sql_drop(table_name) ==
    /\ InBody
    /\ Execute(DropTableIfExists(work, table_name))
    /\ nops' = nops + 1
    /\ last' = [op |-> "drop", table |-> table_name]
    /\ UNCHANGED <<conn, txn, udfs, views, uuid, pc, exc, caught, gens, nscopes,
                   commitPoint, pushlog>>
    /\ UNCHANGED codecVars

(***************************************************************************)
(* Frame sink                                                              *)
(***************************************************************************)
\* Mutant of PushAbsent: the names are compared as they are spelled
PushAbsentCaseSensitive(db, table_name) == table_name \notin ShowTables(db)

\* push, lines 261 and 265: table_name is not among the current tables
PushAbsent(db, table_name) ==
    Lower(table_name) \notin { Lower(x) : x \in ShowTables(db) }

\* push(df, table_name)
push(df, table_name) ==
    /\ InBody
    /\ LET dfview_name == TempName(uuid)
           absent == PushAbsent(work, table_name)
           \* CREATE TABLE of a present name, INSERT INTO an absent one
           fails == absent = HasTable(work, table_name)
       IN  /\ uuid' = uuid + 1
           /\ IF fails
              THEN /\ exc' = "CatalogException"
                   /\ views' = views \cup {dfview_name}
                   /\ UNCHANGED <<work, disk, pushlog>>
              ELSE /\ Execute(IF absent
                              THEN CreateTableAs(work, table_name, df)
                              ELSE InsertInto(work, table_name, df))
                   /\ views' = views
                   /\ exc' = exc
                   /\ pushlog' = Append(pushlog, [df |-> df, table |-> table_name])
           /\ last' = [op |-> "push", df |-> df, table |-> table_name,
                       created |-> absent, failed |-> fails]
    /\ nops' = nops + 1
    /\ UNCHANGED <<conn, txn, udfs, pc, caught, gens, nscopes, commitPoint>>
    /\ UNCHANGED codecVars

(***************************************************************************)
(* Specification of the transaction scope                                  *)
(***************************************************************************)
InitSession ==
    /\ InitConnection
    /\ gens = <<>>
    /\ last = [op |-> "init"]
    /\ udf_args = <<>>
    /\ udf_seen = <<>>
    /\ udf_ret = None

NextSession ==
    \/ Enter
    \/ Exit
    \/ \E e \in UserErrors : Raise(e)
    \/ \E f \in Functions : regfn(f)
    \/ \E t \in PushNames : sql_drop(t)
    \/ \E df \in PushFrames, t \in PushNames : push(df, t)

SpecSession == InitSession /\ [][NextSession]_vars

(***************************************************************************)
(* Slice iterators: the engine's queries                                   *)
(***************************************************************************)
\* SQL comparisons: not true when either side is NULL
SqlEq(x, y) == x # None /\ y # None /\ x = y

SqlGe(x, y) == x # None /\ y # None /\ x >= y

SqlLt(x, y) == x # None /\ y # None /\ x < y

\* ORDER BY on one value: ascending, NULLs last
ValLess(x, y) == x # None /\ (y = None \/ x < y)

\* ORDER BY cols on key tuples of the same length
LexLess(k1, k2) ==
    \E i \in DOMAIN k1 :
        /\ \A j \in 1..(i - 1) : k1[j] = k2[j]
        /\ ValLess(k1[i], k2[i])

\* Mutant of SortKeys: the key tuples in descending order
RECURSIVE SortKeysDescending(_)
SortKeysDescending(S) ==
    IF S = {} THEN <<>>
    ELSE LET m == CHOOSE k \in S : \A o \in S \ {k} : LexLess(o, k)
         IN  <<m>> \o SortKeysDescending(S \ {m})

\* ORDER BY cols on a set of distinct key tuples
RECURSIVE SortKeys(_)
SortKeys(S) ==
    IF S = {} THEN <<>>
    ELSE LET m == CHOOSE k \in S : \A o \in S \ {k} : LexLess(k, o)
         IN  <<m>> \o SortKeys(S \ {m})

\* The key tuple of a row over the column list
KeyOf(row, columns) == [i \in DOMAIN columns |-> row[columns[i]]]

\* SELECT DISTINCT cols FROM table ORDER BY cols
DistinctGroups(rows, columns) ==
    SortKeys({ KeyOf(rows[i], columns) : i \in DOMAIN rows })

\* WHERE col1 = ? AND col2 = ? ...   with the key tuple as parameters
MatchesKey(row, columns, key) ==
    \A i \in DOMAIN columns : SqlEq(row[columns[i]], key[i])

\* SELECT * FROM table WHERE <column_clause>
GroupSlice(rows, columns, key) ==
    SelectSeq(rows, LAMBDA row : MatchesKey(row, columns, key))

\* SELECT MIN(col), MAX(col): NULLs are skipped, None when nothing is left
ColMin(rows, col) ==
    LET S == { rows[i][col] : i \in DOMAIN rows } \ {None}
    IN  IF S = {} THEN None ELSE CHOOSE x \in S : \A y \in S : x <= y

ColMax(rows, col) ==
    LET S == { rows[i][col] : i \in DOMAIN rows } \ {None}
    IN  IF S = {} THEN None ELSE CHOOSE x \in S : \A y \in S : x >= y

\* seq without its i-th element
RemoveAt(seq, i) == [j \in 1..(Len(seq) - 1) |-> IF j < i THEN seq[j] ELSE seq[j + 1]]

\* ORDER BY col (rows of equal value in table order)
RECURSIVE OrderBy(_, _)
OrderBy(rows, col) ==
    IF rows = <<>> THEN <<>>
    ELSE LET i == CHOOSE i \in DOMAIN rows : \A j \in DOMAIN rows :
                      \/ ValLess(rows[i][col], rows[j][col])
                      \/ (~ValLess(rows[j][col], rows[i][col]) /\ i <= j)
         IN  <<rows[i]>> \o OrderBy(RemoveAt(rows, i), col)

\* Mutants of InWindow: the lower bound excluded, the upper bound included
InWindowOpenStart(row, col, current_start, current_end) ==
    SqlLt(current_start, row[col]) /\ SqlLt(row[col], current_end)

InWindowClosedEnd(row, col, current_start, current_end) ==
    SqlGe(row[col], current_start) /\ SqlGe(current_end, row[col])

\* WHERE col >= ? AND col < ?
InWindow(row, col, current_start, current_end) ==
    SqlGe(row[col], current_start) /\ SqlLt(row[col], current_end)

\* SELECT * FROM table WHERE col >= ? AND col < ? ORDER BY col
WindowSlice(rows, col, current_start, current_end) ==
    OrderBy(SelectSeq(rows, LAMBDA row : InWindow(row, col, current_start, current_end)), col)

\* current_end = current_start + window_size
WindowEnd(current_start, window_size) == current_start + window_size

\* Mutant of WindowContinue: the loop stops one tick early
WindowContinueStrict(current_start, end) == current_start < end

\* while current_start <= end   (iter_window)
WindowContinue(current_start, end) == current_start <= end

\* Mutant of ChunkContinue: the loop stops one chunk early
ChunkContinueStrict(current_start, end) == current_start < end

\* while current_start <= end   (iter_chunk)
ChunkContinue(current_start, end) == current_start <= end

(***************************************************************************)
(* Slice iterators: the generator objects                                  *)
(***************************************************************************)
\* A generator object. Calling iter_* only creates it (pc "created"); each
\* next() runs its code up to the next yield ("yielded"), to its end
\* ("done") or to a raised error ("raised"). out is the history of the
\* slices it yielded, snap the table's rows when it first read them.
NewGen(kind, table_name, columns, refcol, window_size, step_size, start, end) ==
    [ kind |-> kind, pc |-> "created", table_name |-> table_name,
      columns |-> columns, refcol |-> refcol,
      window_size |-> window_size, step_size |-> step_size,
      start |-> start, end |-> end,
      arg_step |-> step_size, arg_start |-> start, arg_end |-> end,
      index_name |-> None, groups |-> <<>>,
      current_start |-> None, current_end |-> None,
      pos |-> 0, out |-> <<>>, snap |-> <<>>, err |-> "None" ]

\* The caller may advance generator g
CanAdvance(g) ==
    /\ pc = "inside"
    /\ exc = "None"
    /\ g \in DOMAIN gens
    /\ gens[g].pc \in {"created", "yielded"}

\* The generator raises: the error leaves it and propagates into the with body
GenRaises(g, error) ==
    /\ gens' = [gens EXCEPT ![g].pc = "raised", ![g].err = error]
    /\ exc' = error

\* What the iterators leave alone
scopeVars == <<conn, txn, udfs, views, pc, caught, nops, nscopes, commitPoint, pushlog>>

\* The caller starts an iteration: the scope's first generator object
CanCall == pc = "inside" /\ exc = "None" /\ gens = <<>>

\* iter_group(table_name, columns): only the generator object is created
iter_group(table_name, columns) ==
    /\ CanCall
    /\ gens' = Append(gens, NewGen("group", table_name, columns, None, None, None, None, None))
    /\ last' = [op |-> "iter_group"]
    /\ UNCHANGED <<disk, work, uuid, exc>>
    /\ UNCHANGED scopeVars
    /\ UNCHANGED codecVars

\* next() on an iter_group generator
next_group(g) ==
    /\ CanAdvance(g)
    /\ gens[g].kind = "group"
    /\ LET gen == gens[g]
           columns == gen.columns.items
           index_name == TempName(uuid)
       IN  IF gen.pc = "created"
           THEN IF gen.columns.type # "list"
                THEN /\ GenRaises(g, "TypeError")
                     /\ UNCHANGED <<disk, work, uuid>>
                ELSE /\ uuid' = uuid + 1
                     /\ IF columns = <<>>
                        THEN GenRaises(g, "ParserException") /\ UNCHANGED <<disk, work>>
                        ELSE IF ~HasTable(work, gen.table_name)
                        THEN GenRaises(g, "CatalogException") /\ UNCHANGED <<disk, work>>
                        ELSE LET rows == TableRows(work, gen.table_name)
                                 groups == DistinctGroups(rows, columns)
                             IN  IF groups = <<>>
                                 THEN /\ Execute(DropIndex(CreateIndex(work, index_name), index_name))
                                      /\ gens' = [gens EXCEPT ![g] =
                                            [gen EXCEPT !.pc = "done", !.index_name = index_name,
                                                        !.snap = rows]]
                                      /\ exc' = exc
                                 ELSE /\ Execute(CreateIndex(work, index_name))
                                      /\ gens' = [gens EXCEPT ![g] =
                                            [gen EXCEPT !.pc = "yielded", !.index_name = index_name,
                                                        !.groups = groups, !.pos = 1, !.snap = rows,
                                                        !.out = <<GroupSlice(rows, columns, groups[1])>>]]
                                      /\ exc' = exc
           ELSE /\ uuid' = uuid
                /\ IF gen.pos = Len(gen.groups)
                   THEN /\ Execute(DropIndex(work, gen.index_name))
                        /\ gens' = [gens EXCEPT ![g].pc = "done"]
                        /\ exc' = exc
                   ELSE IF ~HasTable(work, gen.table_name)
                   THEN GenRaises(g, "CatalogException") /\ UNCHANGED <<disk, work>>
                   ELSE /\ gens' = [gens EXCEPT ![g] =
                              [gen EXCEPT !.pos = gen.pos + 1,
                                          !.out = Append(gen.out,
                                              GroupSlice(TableRows(work, gen.table_name), columns,
                                                         gen.groups[gen.pos + 1]))]]
                        /\ exc' = exc
                        /\ UNCHANGED <<disk, work>>
    /\ last' = [op |-> "next", g |-> g]
    /\ UNCHANGED scopeVars
    /\ UNCHANGED codecVars

\* iter_window(table_name, refcol, window_size, step_size, start, end)
iter_window(table_name, refcol, window_size, step_size, start, end) ==
    /\ CanCall
    /\ gens' = Append(gens, NewGen("window", table_name, [type |-> "list", items |-> <<>>],
                                   refcol, window_size, step_size, start, end))
    /\ last' = [op |-> "iter_window"]
    /\ UNCHANGED <<disk, work, uuid, exc>>
    /\ UNCHANGED scopeVars
    /\ UNCHANGED codecVars

\* next() on an iter_window generator
next_window(g) ==
    /\ CanAdvance(g)
    /\ gens[g].kind = "window"
    /\ LET gen == gens[g]
           index_name == TempName(uuid)
       IN  IF gen.pc = "created"
           THEN /\ uuid' = uuid + 1
                /\ IF ~HasTable(work, gen.table_name)
                   THEN GenRaises(g, "CatalogException") /\ UNCHANGED <<disk, work>>
                   ELSE LET step_size == IF Falsy(gen.step_size) THEN gen.window_size
                                         ELSE gen.step_size
                            rows == TableRows(work, gen.table_name)
                            table_start == ColMin(rows, gen.refcol)
                            table_end == ColMax(rows, gen.refcol)
                            start == PyOr(gen.start, table_start)
                            end == PyOr(gen.end, table_end)
                            current_start == start
                            current_end == WindowEnd(current_start, gen.window_size)
                            started == [gen EXCEPT !.step_size = step_size, !.start = start,
                                                   !.end = end, !.index_name = index_name,
                                                   !.snap = rows]
                        IN  IF start = None \/ end = None
                            THEN \* None + window_size, current_start <= None
                                 /\ Execute(CreateIndex(work, index_name))
                                 /\ gens' = [gens EXCEPT ![g] =
                                       [started EXCEPT !.pc = "raised", !.err = "TypeError"]]
                                 /\ exc' = "TypeError"
                            ELSE IF WindowContinue(current_start, end)
                            THEN /\ Execute(CreateIndex(work, index_name))
                                 /\ gens' = [gens EXCEPT ![g] =
                                       [started EXCEPT !.pc = "yielded",
                                            !.current_start = current_start,
                                            !.current_end = current_end,
                                            !.out = <<WindowSlice(rows, gen.refcol,
                                                                  current_start, current_end)>>]]
                                 /\ exc' = exc
                            ELSE /\ Execute(DropIndex(CreateIndex(work, index_name), index_name))
                                 /\ gens' = [gens EXCEPT ![g] =
                                       [started EXCEPT !.pc = "done",
                                            !.current_start = current_start,
                                            !.current_end = current_end]]
                                 /\ exc' = exc
           ELSE /\ uuid' = uuid
                /\ LET current_start == gen.current_start + gen.step_size
                       current_end == WindowEnd(current_start, gen.window_size)
                       resumed == [gen EXCEPT !.current_start = current_start,
                                              !.current_end = current_end]
                   IN  IF ~WindowContinue(current_start, gen.end)
                       THEN /\ Execute(DropIndex(work, gen.index_name))
                            /\ gens' = [gens EXCEPT ![g] = [resumed EXCEPT !.pc = "done"]]
                            /\ exc' = exc
                       ELSE IF ~HasTable(work, gen.table_name)
                       THEN GenRaises(g, "CatalogException") /\ UNCHANGED <<disk, work>>
                       ELSE /\ gens' = [gens EXCEPT ![g] =
                                  [resumed EXCEPT !.out = Append(gen.out,
                                       WindowSlice(TableRows(work, gen.table_name), gen.refcol,
                                                   current_start, current_end))]]
                            /\ exc' = exc
                            /\ UNCHANGED <<disk, work>>
    /\ last' = [op |-> "next", g |-> g]
    /\ UNCHANGED scopeVars
    /\ UNCHANGED codecVars

\* iter_chunk(table_name, chunk_size)
iter_chunk(table_name, chunk_size) ==
    /\ CanCall
    /\ gens' = Append(gens, NewGen("chunk", table_name, [type |-> "list", items |-> <<>>],
                                   "rowid", chunk_size, chunk_size, None, None))
    /\ last' = [op |-> "iter_chunk"]
    /\ UNCHANGED <<disk, work, uuid, exc>>
    /\ UNCHANGED scopeVars
    /\ UNCHANGED codecVars

\* next() on an iter_chunk generator (chunk_size is kept in window_size)
next_chunk(g) ==
    /\ CanAdvance(g)
    /\ gens[g].kind = "chunk"
    /\ LET gen == gens[g]
           chunk_size == gen.window_size
       IN  IF ~HasTable(work, gen.table_name)
           THEN GenRaises(g, "CatalogException")
           ELSE LET rows == TableRows(work, gen.table_name)
                IN  IF gen.pc = "created"
                    THEN LET start == ColMin(rows, "rowid")
                             end == ColMax(rows, "rowid")
                             current_start == start
                             started == [gen EXCEPT !.start = start, !.end = end, !.snap = rows]
                         IN  IF start = None
                             THEN \* None + chunk_size
                                  /\ gens' = [gens EXCEPT ![g] =
                                        [started EXCEPT !.pc = "raised", !.err = "TypeError"]]
                                  /\ exc' = "TypeError"
                             ELSE /\ exc' = exc
                                  /\ gens' = [gens EXCEPT ![g] =
                                       IF ChunkContinue(current_start, end)
                                       THEN [started EXCEPT !.pc = "yielded",
                                                !.current_start = current_start,
                                                !.current_end = current_start + chunk_size,
                                                !.out = <<WindowSlice(rows, "rowid", current_start,
                                                             current_start + chunk_size)>>]
                                       ELSE [started EXCEPT !.pc = "done",
                                                !.current_start = current_start,
                                                !.current_end = current_start + chunk_size]]
                    ELSE LET current_start == gen.current_start + chunk_size
                             current_end == current_start + chunk_size
                             resumed == [gen EXCEPT !.current_start = current_start,
                                                    !.current_end = current_end]
                         IN  /\ exc' = exc
                             /\ gens' = [gens EXCEPT ![g] =
                                  IF ChunkContinue(current_start, gen.end)
                                  THEN [resumed EXCEPT !.out = Append(gen.out,
                                           WindowSlice(rows, "rowid", current_start, current_end))]
                                  ELSE [resumed EXCEPT !.pc = "done"]]
    /\ last' = [op |-> "next", g |-> g]
    /\ UNCHANGED <<disk, work, uuid>>
    /\ UNCHANGED scopeVars
    /\ UNCHANGED codecVars

(***************************************************************************)
(* Specifications of the slice iterators: a scope is open on a database    *)
(* that holds the table emp; the caller creates generators and advances    *)
(* them.                                                                   *)
(***************************************************************************)
SeqsUpTo(S, n) == UNION { [1..k -> S] : k \in 0..n }

KeyVals == (1..MaxKey) \cup {None}

\* Tables for iter_group: key columns a in 1..MaxKey or NULL, b in {1, NULL}
GroupTables ==
    { [i \in DOMAIN t |-> Row(i - 1, t[i][1], t[i][2], 0)] :
        t \in SeqsUpTo(KeyVals \X {1, None}, MaxRows) }

RefVals == (0..MaxRef) \cup {None}

\* Tables for iter_window: reference column r in 0..MaxRef or NULL
WindowTables ==
    { [i \in DOMAIN t |-> Row(i - 1, 1, 1, t[i])] : t \in SeqsUpTo(RefVals, MaxWinRows) }

RECURSIVE RowsOf(_)
RowsOf(ids) ==
    IF ids = {} THEN <<>>
    ELSE LET m == CHOOSE x \in ids : \A y \in ids : x <= y
         IN  <<Row(m, 1, 1, m)>> \o RowsOf(ids \ {m})

\* Tables for iter_chunk: any set of row identifiers in 0..MaxRowid (deleted
\* rows leave gaps)
ChunkTables == { RowsOf(ids) : ids \in SUBSET (0..MaxRowid) }

\* The columns arguments of iter_group: lists of column names, the empty
\* list, and a value that is not a list
GroupColumns ==
    { [type |-> "list", items |-> <<"a">>],
      [type |-> "list", items |-> <<"b">>],
      [type |-> "list", items |-> <<"a", "b">>],
      [type |-> "list", items |-> <<"b", "a">>],
      [type |-> "list", items |-> <<>>],
      [type |-> "str", items |-> <<"a">>] }

WindowSizes == 1..MaxWindow

StepSizes == (0..MaxStep) \cup {None}

Starts == (0..MaxStart) \cup {None}

Ends == (0..MaxRef) \cup {None}

ChunkSizes == 1..MaxChunk

\* Inside `with conn:` on a database that holds tables, the caller holding
\* the generator objects gs
InitScopeOn(tables, gs) ==
    /\ disk = [tables |-> tables, indexes |-> {}, macros |-> {"js"}]
    /\ work = disk
    /\ conn = "open"
    /\ txn = TRUE
    /\ udfs = {}
    /\ views = {}
    /\ uuid = 0
    /\ pc = "inside"
    /\ exc = "None"
    /\ caught = "None"
    /\ nops = 0
    /\ nscopes = 1
    /\ commitPoint = disk
    /\ pushlog = <<>>
    /\ gens = gs
    /\ last = [op |-> "enter"]
    /\ udf_args = <<>>
    /\ udf_seen = <<>>
    /\ udf_ret = None

\* Inside `with conn:` on a database whose table emp holds rows
InitInScope(rows) == InitScopeOn([k \in {emp} |-> rows], <<>>)

InitGroup == \E rows \in GroupTables : InitInScope(rows)

NextGroup ==
    \/ \E columns \in GroupColumns : iter_group(emp, columns)
    \/ \E g \in DOMAIN gens : next_group(g)

SpecGroup == InitGroup /\ [][NextGroup]_vars

InitWindow == \E rows \in WindowTables : InitInScope(rows)

CallWindow ==
    \E window_size \in WindowSizes, step_size \in StepSizes, start \in Starts, end \in Ends :
        iter_window(emp, "r", window_size, step_size, start, end)

NextWindow ==
    \/ CallWindow
    \/ \E g \in DOMAIN gens : next_window(g)

SpecWindow == InitWindow /\ [][NextWindow]_vars

InitChunk == \E rows \in ChunkTables : InitInScope(rows)

NextChunk ==
    \/ \E chunk_size \in ChunkSizes : iter_chunk(emp, chunk_size)
    \/ \E g \in DOMAIN gens : next_chunk(g)

SpecChunk == InitChunk /\ [][NextChunk]_vars

\* iter_window and iter_chunk over tables of either family
InitSlices == \E rows \in WindowTables \cup ChunkTables : InitInScope(rows)

NextSlices ==
    \/ CallWindow
    \/ \E g \in DOMAIN gens : next_window(g)
    \/ \E chunk_size \in ChunkSizes : iter_chunk(emp, chunk_size)
    \/ \E g \in DOMAIN gens : next_chunk(g)

SpecSlices == InitSlices /\ [][NextSlices]_vars

(***************************************************************************)
(* Frame sink fed by an iteration (test_push): the caller pushes slices    *)
(* of an iter_chunk over emp into foo / FOO.                               *)
(***************************************************************************)
InitPush ==
    \E rows \in ChunkTables, had \in {{}, {FOO}} :
        InitScopeOn([k \in {emp} \cup had |->
                        IF k = emp THEN rows ELSE <<Row(0, 9, 9, 9)>>], <<>>)

\* for df in conn.iter_chunk(...): conn.push(df, table_name)
push_slice(g, table_name) ==
    /\ g \in DOMAIN gens
    /\ gens[g].pc = "yielded"
    /\ push(gens[g].out[Len(gens[g].out)], table_name)

NextPush ==
    \/ \E chunk_size \in ChunkSizes : iter_chunk(emp, chunk_size)
    \/ \E g \in DOMAIN gens : next_chunk(g)
    \/ \E g \in DOMAIN gens, t \in PushNames : push_slice(g, t)

SpecPush == InitPush /\ [][NextPush]_vars

\* One iteration by any of the three iterators over a table of its family:
\* the caller holds the generator object and advances it
GroupGens ==
    { NewGen("group", emp, columns, None, None, None, None, None) : columns \in GroupColumns }

WindowGens ==
    { NewGen("window", emp, [type |-> "list", items |-> <<>>], "r",
             window_size, step_size, start, end) :
        window_size \in WindowSizes, step_size \in StepSizes, start \in Starts, end \in Ends }

ChunkGens ==
    { NewGen("chunk", emp, [type |-> "list", items |-> <<>>], "rowid",
             chunk_size, chunk_size, None, None) : chunk_size \in ChunkSizes }

InitOrder ==
    \/ \E rows \in GroupTables, gen \in GroupGens :
           InitScopeOn([k \in {emp} |-> rows], <<gen>>)
    \/ \E rows \in WindowTables, gen \in WindowGens :
           InitScopeOn([k \in {emp} |-> rows], <<gen>>)
    \/ \E rows \in ChunkTables, gen \in ChunkGens :
           InitScopeOn([k \in {emp} |-> rows], <<gen>>)

NextOrder ==
    \/ \E g \in DOMAIN gens : next_group(g)
    \/ \E g \in DOMAIN gens : next_window(g)
    \/ \E g \in DOMAIN gens : next_chunk(g)

SpecOrder == InitOrder /\ [][NextOrder]_vars

(***************************************************************************)
(* Two iterations in one scope: the caller holds two generator objects     *)
(* over emp (creating one runs none of its code), advances them in any     *)
(* order, nested or one after the other.                                   *)
(***************************************************************************)
NoColumns == [type |-> "list", items |-> <<>>]

\* iter_group(emp, ["r"]), iter_group(emp, ["a", "r"]) and
\* iter_window(emp, "r", window_size) for every window size
TwoGens ==
    { NewGen("group", emp, [type |-> "list", items |-> cols], None, None, None, None, None) :
        cols \in { <<"r">>, <<"a", "r">> } }
    \cup { NewGen("window", emp, NoColumns, "r", window_size, None, None, None) :
              window_size \in WindowSizes }

InitTwo ==
    \E rows \in WindowTables, g1 \in TwoGens, g2 \in TwoGens :
        InitScopeOn([k \in {emp} |-> rows], <<g1, g2>>)

NextTwo ==
    \/ \E g \in DOMAIN gens : next_group(g)
    \/ \E g \in DOMAIN gens : next_window(g)

SpecTwo == InitTwo /\ [][NextTwo]_vars

\* Tables of 0..MaxWinRows rows with the reference values 0, 1, ...
CountTables == { RowsOf(0..(n - 1)) : n \in 0..MaxWinRows }

\* The two iterations and pushes into foo, in any order
InitCleanup ==
    \E rows \in CountTables, g1 \in TwoGens, g2 \in TwoGens :
        InitScopeOn([k \in {emp} |-> rows], <<g1, g2>>)

NextCleanup ==
    \/ \E g \in DOMAIN gens : next_group(g)
    \/ \E g \in DOMAIN gens : next_window(g)
    \/ \E df \in {<<Row(0, 1, 1, 0)>>} : push(df, foo)

SpecCleanup == InitCleanup /\ [][NextCleanup]_vars

(***************************************************************************)
(* json_wrap: Python values, json.dumps and json.loads over text as a      *)
(* sequence of characters                                                  *)
(***************************************************************************)
PyInt(n) == [t |-> "int", n |-> n, s |-> <<>>, l |-> <<>>]

PyStr(s) == [t |-> "str", n |-> 0, s |-> s, l |-> <<>>]

PyBool(b) == [t |-> "bool", n |-> IF b THEN 1 ELSE 0, s |-> <<>>, l |-> <<>>]

PyNone == [t |-> "none", n |-> 0, s |-> <<>>, l |-> <<>>]

PyList(l) == [t |-> "list", n |-> 0, s |-> <<>>, l |-> l]

DigitChars == <<"0", "1", "2", "3", "4", "5", "6", "7", "8", "9">>

IsDigit(c) == \E d \in 1..10 : DigitChars[d] = c

DigitVal(c) == (CHOOSE d \in 1..10 : DigitChars[d] = c) - 1

\* Characters json.loads refuses unescaped inside a string
ControlChars == { "\n", "\t", "\r", "\f" }

RECURSIVE NatChars(_)
NatChars(n) ==
    IF n < 10 THEN <<DigitChars[n + 1]>>
    ELSE NatChars(n \div 10) \o <<DigitChars[(n % 10) + 1]>>

IntChars(n) == IF n < 0 THEN <<"-">> \o NatChars(0 - n) ELSE NatChars(n)

\* json.dumps of one character of a string
EscapeChar(c) ==
    CASE c = "\"" -> <<"\\", "\"">>
      [] c = "\\" -> <<"\\", "\\">>
      [] c = "\n" -> <<"\\", "n">>
      [] c = "\t" -> <<"\\", "t">>
      [] c = "\r" -> <<"\\", "r">>
      [] c = "\f" -> <<"\\", "f">>
      [] OTHER -> <<c>>

RECURSIVE EscapeAll(_)
EscapeAll(s) == IF s = <<>> THEN <<>> ELSE EscapeChar(Head(s)) \o EscapeAll(Tail(s))

\* json.dumps (default separators ", ")
RECURSIVE Dumps(_)
RECURSIVE DumpItems(_)
DumpItems(l) ==
    IF l = <<>> THEN <<>>
    ELSE IF Len(l) = 1 THEN Dumps(l[1])
    ELSE Dumps(l[1]) \o <<",", " ">> \o DumpItems(Tail(l))

Dumps(v) ==
    CASE v.t = "int" -> IntChars(v.n)
      [] v.t = "str" -> <<"\"">> \o EscapeAll(v.s) \o <<"\"">>
      [] v.t = "bool" -> IF v.n = 1 THEN <<"t", "r", "u", "e">>
                         ELSE <<"f", "a", "l", "s", "e">>
      [] v.t = "none" -> <<"n", "u", "l", "l">>
      [] v.t = "list" -> <<"[">> \o DumpItems(v.l) \o <<"]">>

StartsWith(s, p) == Len(s) >= Len(p) /\ SubSeq(s, 1, Len(p)) = p

Drop(s, n) == SubSeq(s, n + 1, Len(s))

\* A parse: whether it succeeded, the value, the text left
Parsed(val, rest) == [ok |-> TRUE, val |-> val, rest |-> rest]

Failed == [ok |-> FALSE, val |-> PyNone, rest |-> <<>>]

RECURSIVE SkipWs(_)
SkipWs(s) ==
    IF s # <<>> /\ s[1] \in {" ", "\n", "\t", "\r"} THEN SkipWs(Tail(s)) ELSE s

\* The character an escape \c stands for (\b, \/ and \u are not modelled;
\* no text of the model holds them)
Unescape(c) ==
    CASE c = "\"" -> "\""
      [] c = "\\" -> "\\"
      [] c = "n" -> "\n"
      [] c = "t" -> "\t"
      [] c = "r" -> "\r"
      [] c = "f" -> "\f"

\* The text after an opening quote
RECURSIVE ParseString(_, _)
ParseString(s, acc) ==
    IF s = <<>> THEN Failed
    ELSE IF s[1] = "\"" THEN Parsed(PyStr(acc), Tail(s))
    ELSE IF s[1] = "\\"
    THEN IF Len(s) >= 2 /\ s[2] \in {"\"", "\\", "n", "t", "r", "f"}
         THEN ParseString(Drop(s, 2), Append(acc, Unescape(s[2])))
         ELSE Failed
    ELSE IF s[1] \in ControlChars THEN Failed
    ELSE ParseString(Tail(s), Append(acc, s[1]))

RECURSIVE ParseDigits(_, _)
ParseDigits(s, acc) ==
    IF s # <<>> /\ IsDigit(s[1]) THEN ParseDigits(Tail(s), 10 * acc + DigitVal(s[1]))
    ELSE Parsed(PyInt(acc), s)

\* -?(0|[1-9][0-9]*)   (fractions and exponents are not modelled; no text of
\* the model holds a "." or a digit followed by "e")
ParseInt(s) ==
    LET neg == s # <<>> /\ s[1] = "-"
        d == IF neg THEN Tail(s) ELSE s
    IN  IF d = <<>> \/ ~IsDigit(d[1]) THEN Failed
        ELSE LET r == IF d[1] = "0" THEN Parsed(PyInt(0), Tail(d)) ELSE ParseDigits(d, 0)
             IN  IF neg THEN Parsed(PyInt(0 - r.val.n), r.rest) ELSE r

RECURSIVE ParseValue(_)
RECURSIVE ParseItems(_, _)
\* The text after a value of an array: "," and another value, or "]"
ParseItems(s, acc) ==
    LET r == ParseValue(s)
        after == SkipWs(r.rest)
    IN  IF ~r.ok \/ after = <<>> THEN Failed
        ELSE IF after[1] = "]" THEN Parsed(PyList(Append(acc, r.val)), Tail(after))
        ELSE IF after[1] = "," THEN ParseItems(Tail(after), Append(acc, r.val))
        ELSE Failed

ParseValue(s0) ==
    LET s == SkipWs(s0)
    IN  IF s = <<>> THEN Failed
        ELSE IF StartsWith(s, <<"n", "u", "l", "l">>) THEN Parsed(PyNone, Drop(s, 4))
        ELSE IF StartsWith(s, <<"t", "r", "u", "e">>) THEN Parsed(PyBool(TRUE), Drop(s, 4))
        ELSE IF StartsWith(s, <<"f", "a", "l", "s", "e">>) THEN Parsed(PyBool(FALSE), Drop(s, 5))
        ELSE IF s[1] = "\"" THEN ParseString(Tail(s), <<>>)
        ELSE IF s[1] = "[" THEN
             LET inner == SkipWs(Tail(s))
             IN  IF inner # <<>> /\ inner[1] = "]" THEN Parsed(PyList(<<>>), Tail(inner))
                 ELSE ParseItems(inner, <<>>)
        ELSE ParseInt(s)

\* json.loads: the whole text is one value; ok is FALSE for JSONDecodeError
Loads(text) ==
    LET r == ParseValue(text)
    IN  IF r.ok /\ SkipWs(r.rest) = <<>> THEN r ELSE Failed

\* Mutant of deserialize: a decoding failure is not caught, the argument is
\* lost
deserializeUncaught(arg) ==
    IF arg.t # "str" THEN arg ELSE Loads(arg.s).val

\* wrapper.deserialize, lines 26-32
deserialize(arg) ==
    IF arg.t # "str" THEN arg
    ELSE LET r == Loads(arg.s)
         IN  IF r.ok THEN r.val ELSE arg

\* Mutant of EncodeResult: a list result is handed back as it is
EncodeResultRaw(result) == result

\* wrapper, lines 41-43: a list result is serialized, any other returned as is
EncodeResult(result) ==
    IF result.t = "list" THEN PyStr(Dumps(result)) ELSE result

\* The wrapped functions: identity returns its first argument unchanged,
\* pack returns the list of its arguments, count their number
Apply(func, args) ==
    CASE func = "identity" -> args[1]
      [] func = "pack" -> PyList(args)
      [] func = "count" -> PyInt(Len(args))

\* wrapper(*args), lines 24-43
wrapper(func, args) ==
    EncodeResult(Apply(func, [i \in DOMAIN args |-> deserialize(args[i])]))

\* The primitive values of the lists
Primitives ==
    { PyInt(0), PyInt(7), PyInt(0 - 1), PyInt(120),
      PyStr(<<>>), PyStr(<<"a">>), PyStr(<<"\"">>), PyStr(<<"\\">>), PyStr(<<"\n">>),
      PyStr(<<"[", "1", "]">>), PyStr(<<"n", "u", "l", "l">>), PyStr(<<"a", ",", " ", "1">>),
      PyBool(TRUE), PyBool(FALSE), PyNone }

CodecLists == SeqsUpTo(Primitives, MaxLen)

\* The caller holds a list L and hands its JSON envelope to a wrapped function
InitCodec ==
    /\ InitConnection
    /\ disk = EmptyDb
    /\ gens = <<>>
    /\ \E L \in CodecLists :
           /\ last = [op |-> "envelope", L |-> L, func |-> "None"]
           /\ udf_args = <<PyStr(Dumps(PyList(L)))>>
    /\ udf_seen = <<>>
    /\ udf_ret = PyNone

\* The engine calls the registered wrapper with the arguments
call_wrapper(func) ==
    /\ last.op \in {"envelope", "args"}
    /\ udf_seen' = [i \in DOMAIN udf_args |-> deserialize(udf_args[i])]
    /\ udf_ret' = wrapper(func, udf_args)
    /\ last' = [last EXCEPT !.op = "call", !.func = func]
    /\ UNCHANGED <<disk, work, uuid, exc, gens, udf_args>>
    /\ UNCHANGED scopeVars

NextCodec == \E func \in {"identity"} : call_wrapper(func)

SpecCodec == InitCodec /\ [][NextCodec]_vars

\* An argument of a call and what the wrapped function is to receive for it
Case(arg, sees) == [arg |-> arg, sees |-> sees]

\* Arguments that are not text
NonTextCases ==
    { Case(v, v) : v \in { PyInt(7), PyInt(0), PyNone, PyBool(TRUE), PyList(<<PyInt(1)>>) } }

\* Text arguments that are valid JSON: the encodings of values, and texts
\* with whitespace between the tokens
JsonTextCases ==
    { Case(PyStr(Dumps(v)), v) :
        v \in Primitives \cup { PyList(<<>>), PyList(<<PyInt(1), PyStr(<<"a">>)>>),
                               PyList(<<PyList(<<PyNone>>)>>) } }
    \cup { Case(PyStr(<<" ", "[", "1", " ", ",", "2", "]", "\n">>),
                PyList(<<PyInt(1), PyInt(2)>>)),
           Case(PyStr(<<"-", "1", "2">>), PyInt(0 - 12)) }

\* Text arguments that are not valid JSON
PlainTextCases ==
    { Case(PyStr(t), PyStr(t)) :
        t \in { <<>>, <<"a">>, <<"B", "o", "s", "t", "o", "n">>, <<"[", "1">>,
                <<"[", "1", ",", "]">>, <<"0", "1">>, <<"1", " ", "2">>, <<"n", "u", "l">>,
                <<"\"", "a">>, <<"-">>, <<"'", "a", "'">>, <<"[", "]", "]">> } }

WrapCases == NonTextCases \cup JsonTextCases \cup PlainTextCases

WrappedFunctions == { "identity", "pack", "count" }

\* The engine is about to call a wrapped function with 1..MaxLen arguments
InitWrap ==
    /\ InitConnection
    /\ disk = EmptyDb
    /\ gens = <<>>
    /\ \E cases \in SeqsUpTo(WrapCases, MaxLen) \ {<<>>} :
           /\ last = [op |-> "args", cases |-> cases, func |-> "None"]
           /\ udf_args = [i \in DOMAIN cases |-> cases[i].arg]
    /\ udf_seen = <<>>
    /\ udf_ret = PyNone

NextWrap == \E func \in WrappedFunctions : call_wrapper(func)

SpecWrap == InitWrap /\ [][NextWrap]_vars

(***************************************************************************)
(* Properties of the slice iterators                                       *)
(***************************************************************************)
RowSet(rows) == { rows[i] : i \in DOMAIN rows }

RECURSIVE Concat(_)
Concat(slices) == IF slices = <<>> THEN <<>> ELSE Head(slices) \o Concat(Tail(slices))

\* The rows of all slices, as a set
Yielded(gen) == UNION { RowSet(gen.out[i]) : i \in DOMAIN gen.out }

PairwiseDisjoint(slices) ==
    \A i, j \in DOMAIN slices : i < j => RowSet(slices[i]) \cap RowSet(slices[j]) = {}

GensOf(kind, pcs) == { g \in DOMAIN gens : gens[g].kind = kind /\ gens[g].pc \in pcs }

\* C3 (as claimed): a fully consumed iter_group has yielded exactly one slice
\* per distinct key tuple of the table (NULL keys included), the slices are
\* pairwise disjoint, each key tuple's slice holds exactly the rows with that
\* key tuple, and the union of the slices is the table's set of rows.
C3_GroupExhaustive ==
    \A g \in GensOf("group", {"done"}) :
        LET gen == gens[g]
            columns == gen.columns.items
            table == RowSet(gen.snap)
            keys == { KeyOf(row, columns) : row \in table }
        IN  /\ Len(gen.out) = Cardinality(keys)
            /\ PairwiseDisjoint(gen.out)
            /\ \A key \in keys : \E i \in DOMAIN gen.out :
                   RowSet(gen.out[i]) = { row \in table : KeyOf(row, columns) = key }
            /\ Yielded(gen) = table

\* C7 (as claimed): no slice yielded by iter_group has zero rows.
C7_GroupNeverEmpty ==
    \A g \in GensOf("group", {"yielded", "done"}) :
        \A i \in DOMAIN gens[g].out : gens[g].out[i] # <<>>

\* The bounds of an iter_window call as the caller states them: the supplied
\* value, MIN / MAX of the reference column when none is supplied
StatedStart(gen) ==
    IF gen.arg_start = None THEN ColMin(gen.snap, gen.refcol) ELSE gen.arg_start

StatedEnd(gen) ==
    IF gen.arg_end = None THEN ColMax(gen.snap, gen.refcol) ELSE gen.arg_end

\* The rows of the table whose reference value lies in [lo, hi)
RowsIn(gen, lo, hi) ==
    { row \in RowSet(gen.snap) : SqlGe(row[gen.refcol], lo) /\ SqlLt(row[gen.refcol], hi) }

SumLen(gen) == Len(Concat(gen.out))

NonNullRows(gen) == { row \in RowSet(gen.snap) : row[gen.refcol] # None }

\* Every row of [start, end) is in some slice of a consumed iter_window with
\* step <= window size
WindowCovers(gen) ==
    gen.step_size <= gen.window_size =>
        RowsIn(gen, StatedStart(gen), StatedEnd(gen)) \subseteq Yielded(gen)

DefaultBounds(gen) == gen.arg_start = None /\ gen.arg_end = None

\* C4 (as claimed): with step <= window size every row with its reference
\* value in [start, end) is in at least one slice, and with the default
\* bounds the slice sizes sum to at least the table's row count.
C4_WindowCoverage_Original ==
    \A g \in GensOf("window", {"done"}) :
        LET gen == gens[g]
        IN  /\ WindowCovers(gen)
            /\ (DefaultBounds(gen) /\ gen.step_size <= gen.window_size)
                   => SumLen(gen) >= Len(gen.snap)

\* C4 (amended): with step <= window size every row with its reference value
\* in [start, end) is in at least one slice, and with the default bounds the
\* slice sizes sum to at least the number of rows whose reference value is
\* not NULL.
C4_WindowCoverage ==
    \A g \in GensOf("window", {"done"}) :
        LET gen == gens[g]
        IN  /\ WindowCovers(gen)
            /\ (DefaultBounds(gen) /\ gen.step_size <= gen.window_size)
                   => SumLen(gen) >= Cardinality(NonNullRows(gen))

\* C4 witness: a consumed overlapping iteration (step < window size) with
\* default bounds in which a row was yielded twice
C4_Witness ==
    \E g \in GensOf("window", {"done"}) :
        LET gen == gens[g]
        IN  /\ DefaultBounds(gen)
            /\ gen.step_size < gen.window_size
            /\ Len(gen.out) >= 2
            /\ SumLen(gen) > Len(gen.snap)

Contiguous(rows) == \A i \in DOMAIN rows : rows[i].rowid = rows[1].rowid + i - 1

\* C6: a fully consumed iter_chunk over a non-empty table has yielded every
\* row exactly once, in row-identifier order; when the identifiers are
\* contiguous every slice but the last has exactly chunk_size rows (and the
\* last between 1 and chunk_size).
C6_ChunkExhaustive ==
    \A g \in GensOf("chunk", {"done"}) :
        LET gen == gens[g]
            n == Len(gen.out)
        IN  gen.snap # <<>> =>
                /\ Concat(gen.out) = OrderBy(gen.snap, "rowid")
                /\ Contiguous(gen.snap) =>
                       /\ \A i \in 1..(n - 1) : Len(gen.out[i]) = gen.window_size
                       /\ Len(gen.out[n]) \in 1..gen.window_size

\* C6 witness: a consumed iter_chunk over contiguous identifiers with two
\* full chunks and a shorter last one
C6_Witness ==
    \E g \in GensOf("chunk", {"done"}) :
        LET gen == gens[g]
        IN  /\ Contiguous(gen.snap)
            /\ Len(gen.out) = 3
            /\ Len(gen.out[3]) < gen.window_size
            /\ Len(gen.snap) = 2 * gen.window_size + Len(gen.out[3])

\* The number of ticks start + k * step (k = 0, 1, ...) that are <= end
Ticks(start, end, step) == IF start > end THEN 0 ELSE ((end - start) \div step) + 1

\* Slice k of the generator is the one of tick k - 1, empty or not
SliceOfEveryTick(gen) ==
    /\ \A k \in DOMAIN gen.out :
           LET lo == gen.start + (k - 1) * gen.step_size
           IN  /\ RowSet(gen.out[k]) = RowsIn(gen, lo, lo + gen.window_size)
               /\ Len(gen.out[k]) = Cardinality(RowSet(gen.out[k]))
    /\ Len(gen.out) <= Ticks(gen.start, gen.end, gen.step_size)
    /\ gen.pc = "yielded" => Len(gen.out) >= 1
    /\ gen.pc = "done" => Len(gen.out) = Ticks(gen.start, gen.end, gen.step_size)

RECURSIVE PushedValues(_)
PushedValues(log) ==
    IF log = <<>> THEN <<>> ELSE Values(Head(log).df) \o PushedValues(Tail(log))

ValuesOf(db, name) == IF HasTable(db, name) THEN Values(TableRows(db, name)) ELSE <<>>

\* C9: in a scope whose only writes are pushes into foo / FOO, the first
\* push to the absent table creates it with exactly the frame's rows, every
\* push to the present table (whatever the case of the name) appends exactly
\* the frame's rows after the existing ones, no push fails and no other table
\* changes; so after every slice of an iteration was pushed into the
\* initially absent table, its row count is the sum of the slice sizes.
C9_FrameSink ==
    /\ last.op = "push" => ~last.failed
    /\ Cardinality({ k \in DOMAIN work.tables : Lower(k) = foo }) <= 1
    /\ HasTable(work, foo) <=> (HasTable(disk, foo) \/ pushlog # <<>>)
    /\ ValuesOf(work, foo) = ValuesOf(disk, foo) \o PushedValues(pushlog)
    /\ TableRows(work, emp) = TableRows(disk, emp)
    /\ \A g \in GensOf("chunk", {"done"}) :
           (~HasTable(disk, foo) /\ [i \in DOMAIN pushlog |-> pushlog[i].df] = gens[g].out)
               => Len(ValuesOf(work, foo)) = SumLen(gens[g])

\* C9 witness: every slice of a consumed iteration, a zero-row slice among
\* them, was pushed into the initially absent table under both spellings
C9_Witness ==
    \E g \in GensOf("chunk", {"done"}) :
        /\ ~HasTable(disk, foo)
        /\ [i \in DOMAIN pushlog |-> pushlog[i].df] = gens[g].out
        /\ \E i, j \in DOMAIN pushlog :
               /\ i < j
               /\ pushlog[i].df # <<>>
               /\ pushlog[j].df = <<>>
               /\ pushlog[i].table # pushlog[j].table
        /\ Len(ValuesOf(work, foo)) >= 2

(***************************************************************************)
(* Properties of json_wrap                                                 *)
(***************************************************************************)
\* C10: a wrapped function that returns its list argument unchanged, called
\* with the JSON envelope of a list L of primitives, returns a JSON text
\* that decodes to a list equal to L.
C10_CodecRoundTrip ==
    (last.op = "call" /\ last.func = "identity") =>
        /\ udf_ret.t = "str"
        /\ Loads(udf_ret.s).ok
        /\ Loads(udf_ret.s).val = PyList(last.L)

\* C10 witness: the round trip of a list that holds a string with a quote
\* and a string that is itself JSON text
C10_Witness ==
    /\ last.op = "call"
    /\ last.func = "identity"
    /\ udf_seen = <<PyList(<<PyStr(<<"\"">>), PyStr(<<"[", "1", "]">>)>>)>>

(***************************************************************************)
(* Properties of the transaction scope                                     *)
(***************************************************************************)
\* The last scope was left by a failure raised inside it
ScopeFailed == pc = "outside" /\ exc # "None"

\* C1 (as claimed): after a scope that ends by a raised failure, the database
\* holds exactly the writes made before the scope's last regfn call (the
\* state at entry when regfn was not called); every later write is discarded.
C1_Atomicity == ScopeFailed => disk = commitPoint

\* C2 (as claimed): after a scope that ends by a raised failure, the caller
\* observes exactly the failure raised inside the scope.
C2_ReraisesOriginal == ScopeFailed => caught = exc

\* C11 (as claimed): after a scope has ended, on the success path or on the
\* failure path, the connection it opened is closed, so that outside a scope
\* the Connection object holds no open connection.
C11_ClosedOutsideScope == pc = "outside" => conn # "open"

\* C14 (as claimed): between scope entry and scope exit the only commit is
\* the one inside regfn: a step of the with body other than regfn (a push, a
\* pass-through statement), before or after a regfn call, leaves the
\* committed database as it is.
C14_OnlyRegfnCommits ==
    [][(pc = "inside" /\ pc' = "inside" /\ last'.op # "regfn") => disk' = disk]_vars

(***************************************************************************)
(* Properties of the iterators' bounds                                     *)
(***************************************************************************)
\* The generator has run its code up to its first yield, its end or an error
Started(gen) == gen.pc # "created"

\* C15 (as claimed): iter_window iterates from the supplied start and up to
\* the supplied end whenever the caller supplies one (the value 0 included),
\* and from MIN(ref_column) / up to MAX(ref_column) only when the bound is
\* not supplied.
C15_SuppliedBounds ==
    \A g \in GensOf("window", {"yielded", "done", "raised"}) :
        /\ gens[g].start = StatedStart(gens[g])
        /\ gens[g].end = StatedEnd(gens[g])

\* The caller's bounds are start <= end
BoundsOrdered(gen) ==
    /\ StatedStart(gen) # None
    /\ StatedEnd(gen) # None
    /\ StatedStart(gen) <= StatedEnd(gen)

\* C16 (as claimed), iter_window: with bounds start <= end the iteration
\* does not fail, and once exhausted it has yielded
\* floor((end - start) / step_size) + 1 slices.
C16_WindowSliceCount ==
    \A g \in GensOf("window", {"yielded", "done", "raised"}) :
        LET gen == gens[g]
        IN  BoundsOrdered(gen) =>
                /\ gen.pc # "raised"
                /\ gen.pc = "done" =>
                       Len(gen.out) = Ticks(StatedStart(gen), StatedEnd(gen), gen.step_size)

\* C20 (as claimed): iter_chunk, and iter_window with the default bounds,
\* over a table with zero rows do not raise, and the exhausted iter_window
\* leaves no temporary index behind.
C20_EmptyNotError ==
    \A g \in DOMAIN gens :
        LET gen == gens[g]
        IN  (/\ Started(gen)
             /\ gen.snap = <<>>
             /\ gen.kind = "chunk" \/ (gen.kind = "window" /\ DefaultBounds(gen)))
                => /\ gen.pc # "raised"
                   /\ gen.pc = "done" => work.indexes = {}

(***************************************************************************)
(* Properties of iter_group's argument check                               *)
(***************************************************************************)
\* C13 (as claimed): a call of iter_group with a columns argument that is
\* not a list fails with TypeError at once, before any SQL is issued: there
\* is no such call that has not failed, no index was created and the
\* database is as it was.
C13_FailsImmediately ==
    \A g \in GensOf("group", {"created", "yielded", "done", "raised"}) :
        gens[g].columns.type # "list" =>
            /\ gens[g].pc = "raised"
            /\ gens[g].err = "TypeError"
            /\ exc = "TypeError"
            /\ work = disk
            /\ work.indexes = {}
            /\ uuid = 0

(***************************************************************************)
(* Properties of the temporary objects and of interleaved iterations       *)
(***************************************************************************)
\* The generators that create a temporary index
Indexing == GensOf("group", {"created", "yielded", "done", "raised"})
                \cup GensOf("window", {"created", "yielded", "done", "raised"})

\* C12: while no error was raised, the temporary indexes that exist are
\* exactly those of the iterations that are under way (an exhausted
\* iter_group or iter_window has dropped its index) and no transient view of
\* a returned push is registered; so when every iteration is exhausted the
\* indexes and the registered views are those before the operations (none).
C12_EphemeralCleanup ==
    exc = "None" =>
        /\ work.indexes = { gens[g].index_name : g \in { h \in Indexing : gens[h].pc = "yielded" } }
        /\ views = {}
        /\ (\A g \in Indexing : gens[g].pc \in {"created", "done"}) => work.indexes = {}

\* C12 witness: an iter_group and an iter_window were consumed to exhaustion
\* and a push returned, in one scope
C12_Witness ==
    /\ exc = "None"
    /\ \E g \in GensOf("group", {"done"}) : Len(gens[g].out) >= 2
    /\ \E g \in GensOf("window", {"done"}) : Len(gens[g].out) >= 2
    /\ pushlog # <<>>

\* The slices iter_group yields when it runs alone over rows
AloneGroup(rows, columns) ==
    LET groups == DistinctGroups(rows, columns)
    IN  [k \in DOMAIN groups |-> GroupSlice(rows, columns, groups[k])]

\* The slices iter_window yields when it runs alone over rows
AloneWindow(rows, refcol, window_size, arg_step, arg_start, arg_end) ==
    LET step_size == IF Falsy(arg_step) THEN window_size ELSE arg_step
        start == PyOr(arg_start, ColMin(rows, refcol))
        end == PyOr(arg_end, ColMax(rows, refcol))
    IN  IF start = None \/ end = None THEN <<>>
        ELSE [k \in 1..Ticks(start, end, step_size) |->
                 WindowSlice(rows, refcol, start + (k - 1) * step_size,
                             start + (k - 1) * step_size + window_size)]

Alone(gen, rows) ==
    IF gen.kind = "group" THEN AloneGroup(rows, gen.columns.items)
    ELSE AloneWindow(rows, gen.refcol, gen.window_size, gen.arg_step, gen.arg_start, gen.arg_end)

IsPrefix(s, t) == Len(s) <= Len(t) /\ s = SubSeq(t, 1, Len(s))

\* C18: two iterators over the same, unmutated table advanced in any
\* interleaving each yield the slice sequence they yield when run alone (a
\* prefix of it while under way), the names of their temporary indexes
\* differ, and once both are exhausted no temporary index remains.
C18_Interleaved ==
    /\ \A g \in Indexing :
           /\ IsPrefix(gens[g].out, Alone(gens[g], TableRows(disk, emp)))
           /\ gens[g].pc = "done" => gens[g].out = Alone(gens[g], TableRows(disk, emp))
    /\ \A g, h \in Indexing :
           (g # h /\ Started(gens[g]) /\ Started(gens[h]))
               => gens[g].index_name # gens[h].index_name
    /\ (\A g \in Indexing : gens[g].pc = "done") => work.indexes = {}

\* C18 witness: the second iteration ran from its first slice to its end
\* inside the loop of the first one, and both are exhausted
C18_Witness ==
    /\ Len(gens) = 2
    /\ gens[1].pc = "done" /\ gens[2].pc = "done"
    /\ Len(gens[1].out) >= 2 /\ Len(gens[2].out) >= 2
    /\ gens[1].index_name < gens[2].index_name
    /\ last.op = "next" /\ last.g = 1
    /\ TableRows(work, emp) = TableRows(disk, emp)

(***************************************************************************)
(* Properties of the order of the slices                                   *)
(***************************************************************************)
\* The key tuples in strictly ascending lexicographic order
KeysAscending(groups) == \A i, j \in DOMAIN groups : i < j => LexLess(groups[i], groups[j])

\* The rows of a slice ascending by col
RowsAscending(slice, col) == \A i, j \in DOMAIN slice : i < j => slice[i][col] <= slice[j][col]

\* iter_group: slice k is the one of the k-th key tuple in ascending order
GroupOrdered(gen) ==
    /\ KeysAscending(gen.groups)
    /\ Len(gen.out) = gen.pos
    /\ \A k \in DOMAIN gen.out : gen.out[k] = GroupSlice(gen.snap, gen.columns.items, gen.groups[k])

\* iter_window / iter_chunk: the rows of every slice ascend; the chunks hold
\* ascending row identifiers from one slice to the next
SliceOrdered(gen) ==
    /\ \A k \in DOMAIN gen.out : RowsAscending(gen.out[k], gen.refcol)
    /\ gen.kind = "chunk" =>
           \A i, j \in DOMAIN gen.out : i < j =>
               \A x \in RowSet(gen.out[i]), y \in RowSet(gen.out[j]) : x.rowid < y.rowid

\* A step that makes generator g yield another slice moves current_start up
TickAdvances(g) ==
    (gens[g].pc = "yielded" /\ gens'[g].pc = "yielded" /\ Len(gens'[g].out) > Len(gens[g].out))
        => gens'[g].current_start > gens[g].current_start

\* C17: iter_group yields the slices of the distinct key tuples in strictly
\* ascending lexicographic order (no key tuple twice); iter_window and
\* iter_chunk yield their slices in strictly increasing current_start; the
\* rows of a window or chunk slice ascend by ref_column / row identifier.
C17_Ordering ==
    /\ [](\A g \in GensOf("group", {"yielded", "done"}) : GroupOrdered(gens[g]))
    /\ [](\A g \in GensOf("window", {"yielded", "done"}) \cup GensOf("chunk", {"yielded", "done"}) :
             SliceOrdered(gens[g]))
    /\ [][\A g \in GensOf("window", {"yielded"}) \cup GensOf("chunk", {"yielded"}) :
             TickAdvances(g)]_vars

\* C17 witness: a consumed iter_group over two columns with three key
\* tuples, two of them equal in the first column
C17_Witness ==
    \E g \in GensOf("group", {"done"}) :
        LET gen == gens[g]
        IN  /\ Len(gen.columns.items) = 2
            /\ Len(gen.out) >= 3
            /\ \E i, j \in DOMAIN gen.groups :
                   i < j /\ gen.groups[i][1] = gen.groups[j][1] /\ gen.groups[i][1] # None

(***************************************************************************)
(* Properties of json_wrap's argument and result handling                  *)
(***************************************************************************)
\* What the wrapped function returns for the arguments it is to receive
ExpectedResult == Apply(last.func, [i \in DOMAIN last.cases |-> last.cases[i].sees])

\* C19: the wrapped function receives a non-text argument unchanged, the
\* decoded value of a text argument that is valid JSON and the original text
\* of one that is not; the wrapper returns the JSON encoding of a list
\* result and any other result unchanged.
C19_WrapHandling ==
    (last.op = "call" /\ "cases" \in DOMAIN last) =>
        /\ Len(udf_seen) = Len(udf_args)
        /\ \A i \in DOMAIN udf_args : udf_seen[i] = last.cases[i].sees
        /\ IF ExpectedResult.t = "list"
           THEN /\ udf_ret.t = "str"
                /\ udf_ret.s = Dumps(ExpectedResult)
                /\ Loads(udf_ret.s).ok /\ Loads(udf_ret.s).val = ExpectedResult
           ELSE udf_ret = ExpectedResult

\* C19 witness: a call with a valid JSON text and a text that is not JSON
\* whose result is a list
C19_Witness ==
    /\ last.op = "call"
    /\ "cases" \in DOMAIN last
    /\ last.func = "pack"
    /\ udf_args = <<PyStr(<<"[", "1", ",", " ", "\"", "a", "\"", "]">>), PyStr(<<"[", "1">>)>>
    /\ udf_seen = <<PyList(<<PyInt(1), PyStr(<<"a">>)>>), PyStr(<<"[", "1">>)>>
    /\ udf_ret.t = "str"

====
